---- MODULE Spec2Model ----
(***************************************************************************)
(* Model of pulse-visualizer (src/src/main.rs): one thread that connects a *)
(* PulseAudio context, looks up the "FiiO" sink, opens a corked monitor    *)
(* record stream and polls it for ten seconds.                             *)
(*                                                                         *)
(* The program's position is pc; every step issues at most one library     *)
(* call, recorded in call.  The audio library is the environment.  What it *)
(* does inside one successful mainloop.iterate(false) is chosen            *)
(* nondeterministically: context and stream state changes, sink-list       *)
(* callbacks, arrival of recorded chunks.  Outside iterate nothing         *)
(* changes.  The library's rules the model relies on:                      *)
(*   - a context that fails or terminates takes its streams with it;       *)
(*   - is_corked and peek fail on a stream that is not Ready;              *)
(*   - peek returns the oldest queued chunk until discard removes it;      *)
(*   - a sink list ends with End or Error, and the callback (with the      *)
(*     Sender it owns) is dropped then.                                    *)
(***************************************************************************)
EXTENDS Integers, Sequences, FiniteSets, TLC

(* ---------------------------- bounds ---------------------------------- *)
MaxSinks == 2        \* sinks the server reports
MaxArrivals == 1     \* chunks the server records during the run

(* ------------------------ program constants --------------------------- *)
RunDuration == 10    \* Duration::from_secs(10)

Pattern == <<"F", "i", "i", "O">>

(* --------------------------- the server ------------------------------- *)
\* the sinks the server may report; every sink carries a name, so
\* item.name.clone().unwrap() succeeds
Catalog ==
  { [index |-> 5, name |-> <<"F", "i", "i", "O">>],
    [index |-> 2, name |-> <<"x", "F", "i", "i", "O", "y">>],
    [index |-> 7, name |-> <<"F", "i", "O", "i">>] }

RECURSIVE SeqsNoRep(_, _)
SeqsNoRep(S, n) ==
  IF n = 0 THEN { <<>> }
  ELSE LET shorter == SeqsNoRep(S, n - 1)
       IN shorter \cup
          UNION { { Append(s, x) : x \in S \ { s[i] : i \in DOMAIN s } } :
                  s \in { t \in shorter : Len(t) = n - 1 } }

SinkLists == SeqsNoRep(Catalog, MaxSinks)

Silent == <<0, 0>>
Chunks ==
  { [kind |-> "Hole", data |-> <<>>],
    [kind |-> "Data", data |-> Silent],
    [kind |-> "Data", data |-> <<0, 7>>] }

NoPeek == [kind |-> "None", data |-> <<>>]
PeekEmpty == [kind |-> "Empty", data |-> <<>>]
PeekErr == [kind |-> "Err", data |-> <<>>]

BadStates == {"Failed", "Terminated"}
Terminal == {"done", "exited", "panicked"}

(* ------------------------- pure functions ----------------------------- *)
\* str::contains: some window of s equals pat
Contains(s, pat) ==
  \E i \in 1..(Len(s) - Len(pat) + 1) : SubSeq(s, i, i + Len(pat) - 1) = pat

\* looks only at the first byte of the buffer
AllZeroFirstByte(d) == d = <<>> \/ Head(d) = 0

\* data.iter().all(|&x| x == 0), left to right
RECURSIVE AllZero(_)
AllZero(d) ==
  IF d = <<>> THEN TRUE
  ELSE IF Head(d) # 0 THEN FALSE
  ELSE AllZero(Tail(d))

VARIABLES
  pc,            \* position of main / get_sink
  call,          \* library call issued by the latest step
  out,           \* stdout line printed by the latest step
  diag,          \* stderr line or panic message of the latest step
  ctxState,      \* pulse::context::State
  strState,      \* pulse::stream::State ("None" before Stream::new)
  corked,        \* the stream's cork flag
  queue,         \* chunks queued on the record stream, oldest first
  arrivals,      \* chunks recorded so far (their ids)
  fragment,      \* TRUE while a peeked fragment has not been discarded
  peekRes,       \* result of the peek of the latest step
  elapsed,       \* seconds since start = Instant::now()
  sinks,         \* the server's sink list
  delivered,     \* list items already handed to the callback
  listState,     \* "idle", "pending" (callback registered), "done"
  chan,          \* indexes sent and not yet received
  sent,          \* how many indexes the callback has sent
  txAlive,       \* the Sender (owned by the callback) exists
  rxAlive,       \* the Receiver exists
  sink,          \* value returned by get_sink, -1 before
  monitor,       \* index given to set_monitor_stream, -1 before
  printed,       \* ids of the chunks whose data line was printed
  reprinted,     \* a data line was printed for a chunk printed before
  ctxReadySeen,  \* get_state() of the context has returned Ready
  strReadySeen,  \* get_state() of the stream has returned Ready
  libErr,        \* a library error has been reported to the program
  iterRes        \* what the latest mainloop.iterate returned, "none" before

vars == << pc, call, out, diag, ctxState, strState, corked, queue, arrivals,
           fragment, peekRes, elapsed, sinks, delivered, listState, chan,
           sent, txAlive, rxAlive, sink, monitor, printed, reprinted, ctxReadySeen,
           strReadySeen, libErr, iterRes >>

Init ==
  /\ pc = "ctx_iterate"
  /\ call = "connect"
  /\ out = "none"
  /\ diag = "none"
  /\ ctxState = "Connecting"
  /\ strState = "None"
  /\ corked = FALSE
  /\ queue = <<>>
  /\ arrivals = 0
  /\ fragment = FALSE
  /\ peekRes = NoPeek
  /\ elapsed = 0
  /\ sinks \in SinkLists
  /\ delivered = 0
  /\ listState = "idle"
  /\ chan = <<>>
  /\ sent = 0
  /\ txAlive = FALSE
  /\ rxAlive = FALSE
  /\ sink = -1
  /\ monitor = -1
  /\ printed = {}
  /\ reprinted = FALSE
  /\ ctxReadySeen = FALSE
  /\ strReadySeen = FALSE
  /\ libErr = FALSE
  /\ iterRes = "none"

(* ------------------- the library inside iterate ----------------------- *)
IterateResults == {"Success", "Err", "Quit"}

\* context state machine of the library; Failed and Terminated are final
CtxNext(s) ==
  CASE s = "Connecting" -> {"Connecting", "Ready", "Failed", "Terminated"}
    [] s = "Ready" -> {"Ready", "Failed", "Terminated"}
    [] OTHER -> {s}

\* stream state machine of the library; an unconnected stream stays so
StrNext(s) ==
  CASE s = "Creating" -> {"Creating", "Ready", "Failed"}
    [] s = "Ready" -> {"Ready", "Failed"}
    [] OTHER -> {s}

\* a context that fails or terminates takes its streams with it
Couple(cs, ss) ==
  IF cs \in BadStates /\ ss \notin ({"None"} \cup BadStates) THEN cs ELSE ss

\* the closure given to get_sink_info_list, applied to one Item
RunCallback(st, item) ==
  IF st.panic THEN st
  ELSE IF Contains(item.name, Pattern)
       THEN IF rxAlive
            THEN [st EXCEPT !.chan = Append(@, item.index), !.sent = @ + 1]
            ELSE [st EXCEPT !.panic = TRUE]
       ELSE st

\* items from+1 .. to of the sink list, handed to the closure in order
RECURSIVE Deliver(_, _, _)
Deliver(st, from, to) ==
  IF from >= to THEN st
  ELSE Deliver(RunCallback(st, sinks[from + 1]), from + 1, to)

\* takes Quit for a success
IterateOutcomeErrOnly(r) == IF r = "Err" THEN "fail" ELSE "ok"

\* the outcome of matching on mainloop.iterate(false)
IterateOutcome(r) == IF r \in {"Err", "Quit"} THEN "fail" ELSE "ok"

\* leaves the loop with break, towards the shutdown, where main returns
FailTargetBreaks(onFail) ==
  IF onFail = "panic" THEN "panicked" ELSE "shutdown_quit"

\* where the Err | Quit arm goes: return in main, panic! in get_sink
FailTarget(onFail) == IF onFail = "panic" THEN "panicked" ELSE "exited"

\* one mainloop.borrow_mut().iterate(false) and the match on its result;
\* onFail is "return" in main and "panic" in get_sink.  A successful iterate
\* dispatches what the library has pending: state changes, sink-list
\* callbacks, recorded chunks
Iterate(okPc, onFail, msg) ==
  \E r \in IterateResults, cs \in CtxNext(ctxState), ss \in StrNext(strState),
     n \in delivered..Len(sinks), fin \in {"none", "End", "Error"},
     a \in Chunks \cup {NoPeek} :
    LET st == Deliver([chan |-> chan, sent |-> sent, panic |-> FALSE],
                      delivered, n)
        finished == fin # "none" /\ ~st.panic
        failed == IterateOutcome(r) = "fail"
    IN \* an iterate that fails dispatches nothing
       /\ failed => /\ cs = ctxState /\ ss = strState
                    /\ n = delivered /\ fin = "none" /\ a = NoPeek
       /\ cs \in BadStates => ss = strState
       /\ listState # "pending" => (n = delivered /\ fin = "none")
       \* the list is answered by its items and End, or by Error alone
       /\ fin = "End" => n = Len(sinks)
       /\ fin = "Error" => n = 0
       /\ a # NoPeek => /\ strState = "Ready" /\ ~corked
                        /\ arrivals < MaxArrivals
       /\ call' = "iterate"
       /\ iterRes' = IF st.panic THEN "none" ELSE r
       /\ out' = IF st.sent > sent THEN "Found sink" ELSE "none"
       /\ ctxState' = cs
       /\ strState' = Couple(cs, ss)
       /\ IF a = NoPeek
          THEN UNCHANGED << queue, arrivals >>
          ELSE /\ arrivals' = arrivals + 1
               /\ queue' = Append(queue, [id |-> arrivals + 1,
                                          kind |-> a.kind, data |-> a.data])
       /\ chan' = st.chan
       /\ sent' = st.sent
       /\ delivered' = n
       /\ listState' = IF finished THEN "done" ELSE listState
       /\ txAlive' = (txAlive /\ ~finished)
       /\ libErr' = (libErr \/ failed \/ (fin = "Error" /\ ~st.panic))
       /\ pc' = IF st.panic THEN "panicked"
                ELSE IF failed
                     THEN FailTarget(onFail)
                     ELSE okPc
       /\ diag' = IF st.panic THEN "callback panicked"
                  ELSE IF failed THEN msg
                  ELSE IF fin = "Error" THEN "Error getting sink info list."
                  ELSE "none"
       /\ peekRes' = NoPeek
       /\ UNCHANGED << corked, fragment, elapsed, sinks, rxAlive, sink,
                       monitor, printed, reprinted, ctxReadySeen, strReadySeen >>

(* --------------------------- main: context wait ----------------------- *)
\* leaves the wait on any state that is not a failure
CtxWaitBreaksEarly(s) ==
  IF s \in {"Failed", "Terminated"} THEN "return" ELSE "break"

\* match context.borrow().get_state() in main
CtxWaitOutcome(s) ==
  IF s = "Ready" THEN "break"
  ELSE IF s \in {"Failed", "Terminated"} THEN "return"
  ELSE "continue"

CtxIterate ==
  /\ pc = "ctx_iterate"
  /\ Iterate("ctx_state", "return", "Iterate state was not success, qutting...")

CtxGetState ==
  /\ pc = "ctx_state"
  /\ call' = "context.get_state"
  /\ out' = "none"
  /\ peekRes' = NoPeek
  /\ ctxReadySeen' = (ctxReadySeen \/ ctxState = "Ready")
  /\ LET o == CtxWaitOutcome(ctxState)
     IN /\ pc' = IF o = "break" THEN "new_stream"
                 ELSE IF o = "return" THEN "exited" ELSE "ctx_iterate"
        /\ diag' = IF o = "return"
                   THEN "Context state failed/terminated, quitting..."
                   ELSE "none"
  /\ UNCHANGED << ctxState, strState, corked, queue, arrivals, fragment,
                  elapsed, sinks, delivered, listState, chan, sent, txAlive,
                  rxAlive, sink, monitor, printed, reprinted, strReadySeen, libErr, iterRes >>

NewStream ==
  /\ pc = "new_stream"
  /\ call' = "Stream::new"
  /\ out' = "Creating stream."
  /\ peekRes' = NoPeek
  /\ strState' = "Unconnected"
  /\ pc' = "gs_start"
  /\ diag' = "none"
  /\ UNCHANGED << ctxState, corked, queue, arrivals, fragment, elapsed,
                  sinks, delivered, listState, chan, sent, txAlive, rxAlive,
                  sink, monitor, printed, reprinted, ctxReadySeen, strReadySeen, libErr, iterRes >>

(* ------------------------------ get_sink ------------------------------ *)
\* mpsc::channel(), the closure takes tx, get_sink_info_list registers it
GetSinkStart ==
  /\ pc = "gs_start"
  /\ call' = "get_sink_info_list"
  /\ out' = "Getting sink."
  /\ peekRes' = NoPeek
  /\ listState' = "pending"
  /\ txAlive' = TRUE
  /\ rxAlive' = TRUE
  /\ chan' = <<>>
  /\ pc' = "gs_iterate"
  /\ diag' = "none"
  /\ UNCHANGED << ctxState, strState, corked, queue, arrivals, fragment,
                  elapsed, sinks, delivered, sent, sink, monitor, printed, reprinted,
                  ctxReadySeen, strReadySeen, libErr, iterRes >>

GsIterate ==
  /\ pc = "gs_iterate"
  /\ Iterate("gs_state", "panic", "Iterate state was not success, qutting...")

\* match context.borrow().get_state() in get_sink
GetSinkStateOutcome(s) ==
  IF s \in {"Failed", "Terminated"} THEN "panic" ELSE "continue"

GsGetState ==
  /\ pc = "gs_state"
  /\ call' = "context.get_state"
  /\ out' = "none"
  /\ peekRes' = NoPeek
  /\ LET o == GetSinkStateOutcome(ctxState)
     IN /\ pc' = IF o = "panic" THEN "panicked" ELSE "gs_recv"
        /\ diag' = IF o = "panic"
                   THEN "Context state failed/terminated, quitting..."
                   ELSE "none"
  /\ UNCHANGED << ctxState, strState, corked, queue, arrivals, fragment,
                  elapsed, sinks, delivered, listState, chan, sent, txAlive,
                  rxAlive, sink, monitor, printed, reprinted, ctxReadySeen, strReadySeen,
                  libErr, iterRes >>

\* reports a dropped sender before looking at the queue
TryRecvSenderFirst(c, tx) ==
  IF ~tx THEN "Disconnected"
  ELSE IF c # <<>> THEN "Ok"
  ELSE "Empty"

\* Receiver::try_recv: a queued value wins over a dropped sender
TryRecv(c, tx) ==
  IF c # <<>> THEN "Ok"
  ELSE IF tx THEN "Empty"
  ELSE "Disconnected"

\* takes the newest queued value
NewestQueued(c) == c[Len(c)]

\* the value try_recv hands out: the channel is first in, first out
OldestQueued(c) == Head(c)

\* match rx.try_recv(); on Ok get_sink returns and rx is dropped
GsTryRecv ==
  /\ pc = "gs_recv"
  /\ call' = "try_recv"
  /\ out' = "none"
  /\ peekRes' = NoPeek
  /\ LET r == TryRecv(chan, txAlive)
     IN /\ pc' = IF r = "Ok" THEN "set_monitor"
                 ELSE IF r = "Empty" THEN "gs_iterate" ELSE "panicked"
        /\ sink' = IF r = "Ok" THEN OldestQueued(chan) ELSE sink
        /\ chan' = IF r = "Ok" THEN <<>> ELSE chan
        /\ rxAlive' = (r # "Ok")
        /\ diag' = IF r = "Disconnected" THEN "Empty channel." ELSE "none"
  /\ UNCHANGED << ctxState, strState, corked, queue, arrivals, fragment,
                  elapsed, sinks, delivered, listState, sent, txAlive,
                  monitor, printed, reprinted, ctxReadySeen, strReadySeen, libErr, iterRes >>

(* ----------------------- main: connect the stream --------------------- *)
SetMonitor ==
  /\ pc = "set_monitor"
  /\ call' = "set_monitor_stream"
  /\ out' = "Using sink"
  /\ peekRes' = NoPeek
  /\ monitor' = sink
  /\ pc' = "connect_record"
  /\ diag' = "none"
  /\ UNCHANGED << ctxState, strState, corked, queue, arrivals, fragment,
                  elapsed, sinks, delivered, listState, chan, sent, txAlive,
                  rxAlive, sink, printed, reprinted, ctxReadySeen, strReadySeen, libErr, iterRes >>

\* connect_record(None, None, START_CORKED)
ConnectRecord ==
  /\ pc = "connect_record"
  /\ call' = "connect_record"
  /\ out' = "none"
  /\ peekRes' = NoPeek
  /\ strState' = "Creating"
  /\ corked' = TRUE
  /\ pc' = "sw_iterate"
  /\ diag' = "none"
  /\ UNCHANGED << ctxState, queue, arrivals, fragment, elapsed, sinks,
                  delivered, listState, chan, sent, txAlive, rxAlive, sink,
                  monitor, printed, reprinted, ctxReadySeen, strReadySeen, libErr, iterRes >>

(* -------------------------- main: stream wait ------------------------- *)
SwIterate ==
  /\ pc = "sw_iterate"
  /\ Iterate("sw_state", "return", "Iterate state was not success, quitting...")

\* keeps waiting on a failed or terminated stream
StreamWaitIgnoresFailure(s) == IF s = "Ready" THEN "break" ELSE "continue"

\* match stream.borrow().get_state()
StreamWaitOutcome(s) ==
  IF s = "Ready" THEN "break"
  ELSE IF s \in {"Failed", "Terminated"} THEN "return"
  ELSE "continue"

SwGetState ==
  /\ pc = "sw_state"
  /\ call' = "stream.get_state"
  /\ out' = "none"
  /\ peekRes' = NoPeek
  /\ strReadySeen' = (strReadySeen \/ strState = "Ready")
  /\ LET o == StreamWaitOutcome(strState)
     IN /\ pc' = IF o = "break" THEN "run_start"
                 ELSE IF o = "return" THEN "exited" ELSE "sw_iterate"
        /\ diag' = IF o = "return"
                   THEN "Stream state failed/terminated, quitting..."
                   ELSE "none"
  /\ UNCHANGED << ctxState, strState, corked, queue, arrivals, fragment,
                  elapsed, sinks, delivered, listState, chan, sent, txAlive,
                  rxAlive, sink, monitor, printed, reprinted, ctxReadySeen, libErr, iterRes >>

(* ---------------------------- main: run loop -------------------------- *)
RunPcs == {"run_iterate", "run_corked", "run_uncork", "run_elapsed",
           "run_peek", "run_discard"}

\* let start = Instant::now()
RunStart ==
  /\ pc = "run_start"
  /\ call' = "none"
  /\ out' = "Running for 10s."
  /\ peekRes' = NoPeek
  /\ elapsed' = 0
  /\ pc' = "run_iterate"
  /\ diag' = "none"
  /\ UNCHANGED << ctxState, strState, corked, queue, arrivals, fragment,
                  sinks, delivered, listState, chan, sent, txAlive, rxAlive,
                  sink, monitor, printed, reprinted, ctxReadySeen, strReadySeen, libErr, iterRes >>

\* the wall clock, seen at the values that matter to the duration check:
\* 0, run_duration and one second more; it is read only by start.elapsed(),
\* so its advance is taken right before that read
Tick ==
  /\ pc = "run_elapsed"
  /\ elapsed <= RunDuration
  /\ elapsed' = IF elapsed < RunDuration THEN RunDuration ELSE RunDuration + 1
  /\ UNCHANGED << pc, call, out, diag, ctxState, strState, corked, queue,
                  arrivals, fragment, peekRes, sinks, delivered, listState,
                  chan, sent, txAlive, rxAlive, sink, monitor, printed, reprinted,
                  ctxReadySeen, strReadySeen, libErr, iterRes >>

RunIterate ==
  /\ pc = "run_iterate"
  /\ Iterate("run_corked", "return",
             "Iterate state was not success, quitting...")

\* stream.is_corked(): BADSTATE unless the stream is Ready
IsCorked(s, c) ==
  IF s # "Ready" THEN "Err"
  ELSE IF c THEN "True" ELSE "False"

\* if stream.borrow().is_corked().unwrap()
RunIsCorked ==
  /\ pc = "run_corked"
  /\ call' = "is_corked"
  /\ out' = "none"
  /\ peekRes' = NoPeek
  /\ LET r == IsCorked(strState, corked)
     IN /\ pc' = IF r = "Err" THEN "panicked"
                 ELSE IF r = "True" THEN "run_uncork" ELSE "run_elapsed"
        /\ diag' = IF r = "Err" THEN "is_corked: unwrap on Err" ELSE "none"
  /\ UNCHANGED << ctxState, strState, corked, queue, arrivals, fragment,
                  elapsed, sinks, delivered, listState, chan, sent, txAlive,
                  rxAlive, sink, monitor, printed, reprinted, ctxReadySeen, strReadySeen,
                  libErr, iterRes >>

RunUncork ==
  /\ pc = "run_uncork"
  /\ call' = "uncork"
  /\ out' = "Uncorking stream."
  /\ peekRes' = NoPeek
  /\ corked' = FALSE
  /\ pc' = "run_elapsed"
  /\ diag' = "none"
  /\ UNCHANGED << ctxState, strState, queue, arrivals, fragment,
                  elapsed, sinks, delivered, listState, chan, sent, txAlive,
                  rxAlive, sink, monitor, printed, reprinted, ctxReadySeen, strReadySeen,
                  libErr, iterRes >>

\* breaks as soon as the duration is reached
DurationReached(e) == e >= RunDuration

\* start.elapsed() > run_duration
DurationExceeded(e) == e > RunDuration

RunElapsed ==
  /\ pc = "run_elapsed"
  /\ call' = "none"
  /\ out' = "none"
  /\ peekRes' = NoPeek
  /\ pc' = IF DurationExceeded(elapsed) THEN "shutdown_quit" ELSE "run_peek"
  /\ diag' = "none"
  /\ UNCHANGED << ctxState, strState, corked, queue, arrivals, fragment,
                  elapsed, sinks, delivered, listState, chan, sent, txAlive,
                  rxAlive, sink, monitor, printed, reprinted, ctxReadySeen, strReadySeen,
                  libErr, iterRes >>

\* what stream.peek() can return: the oldest queued chunk, which stays
\* queued until discard(), Empty when nothing is queued, or an error
PeekResults ==
  IF strState # "Ready" THEN {PeekErr}
  ELSE {PeekErr} \cup
       (IF queue = <<>> THEN {PeekEmpty}
        ELSE {[kind |-> Head(queue).kind, data |-> Head(queue).data]})

\* if !data.iter().all(|&x| x == 0)
PrintsData(d) == ~AllZero(d)

\* where the arms of the match on peek() go next
PeekOutcome(kind) == IF kind = "Hole" THEN "run_discard" ELSE "run_iterate"

RunPeek ==
  /\ pc = "run_peek"
  /\ call' = "peek"
  /\ \E r \in PeekResults :
       LET line == r.kind = "Data" /\ PrintsData(r.data)
       IN /\ peekRes' = r
          /\ fragment' = (fragment \/ r.kind \in {"Hole", "Data"})
          /\ out' = IF r.kind = "Hole" THEN "Hole, discarding."
                    ELSE IF line THEN "Received" ELSE "none"
          /\ printed' = IF line THEN printed \cup {Head(queue).id}
                        ELSE printed
          /\ reprinted' = (reprinted \/ (line /\ Head(queue).id \in printed))
          /\ diag' = IF r.kind = "Err" THEN "Error reading from stream"
                     ELSE "none"
          /\ libErr' = (libErr \/ r.kind = "Err")
          /\ pc' = PeekOutcome(r.kind)
  /\ UNCHANGED << ctxState, strState, corked, queue, arrivals, elapsed, sinks,
                  delivered, listState, chan, sent, txAlive, rxAlive, sink,
                  monitor, ctxReadySeen, strReadySeen, iterRes >>

\* stream.borrow_mut().discard().unwrap(): drops the peeked fragment
RunDiscard ==
  /\ pc = "run_discard"
  /\ call' = "discard"
  /\ out' = "none"
  /\ peekRes' = NoPeek
  /\ IF fragment /\ queue # <<>>
     THEN /\ queue' = Tail(queue)
          /\ fragment' = FALSE
          /\ pc' = "run_iterate"
          /\ diag' = "none"
     ELSE /\ pc' = "panicked"
          /\ diag' = "discard: unwrap on Err"
          /\ UNCHANGED << queue, fragment >>
  /\ UNCHANGED << ctxState, strState, corked, arrivals, elapsed, sinks,
                  delivered, listState, chan, sent, txAlive, rxAlive, sink,
                  monitor, printed, reprinted, ctxReadySeen, strReadySeen, libErr, iterRes >>

(* ----------------------------- main: shutdown ------------------------- *)
\* println!("Shutdown."); mainloop.borrow_mut().quit(Retval(0))
ShutdownQuit ==
  /\ pc = "shutdown_quit"
  /\ call' = "quit"
  /\ out' = "Shutdown."
  /\ peekRes' = NoPeek
  /\ pc' = "shutdown_disconnect"
  /\ diag' = "none"
  /\ UNCHANGED << ctxState, strState, corked, queue, arrivals, fragment,
                  elapsed, sinks, delivered, listState, chan, sent, txAlive,
                  rxAlive, sink, monitor, printed, reprinted, ctxReadySeen, strReadySeen,
                  libErr, iterRes >>

\* stream.borrow_mut().disconnect().unwrap(); main returns
ShutdownDisconnect ==
  /\ pc = "shutdown_disconnect"
  /\ call' = "disconnect"
  /\ out' = "none"
  /\ peekRes' = NoPeek
  /\ pc' = "done"
  /\ diag' = "none"
  /\ UNCHANGED << ctxState, strState, corked, queue, arrivals, fragment,
                  elapsed, sinks, delivered, listState, chan, sent, txAlive,
                  rxAlive, sink, monitor, printed, reprinted, ctxReadySeen, strReadySeen,
                  libErr, iterRes >>

Program ==
  \/ CtxIterate
  \/ CtxGetState
  \/ NewStream
  \/ GetSinkStart
  \/ GsIterate
  \/ GsGetState
  \/ GsTryRecv
  \/ SetMonitor
  \/ ConnectRecord
  \/ SwIterate
  \/ SwGetState
  \/ RunStart
  \/ RunIterate
  \/ RunIsCorked
  \/ RunUncork
  \/ RunElapsed
  \/ RunPeek
  \/ RunDiscard
  \/ ShutdownQuit
  \/ ShutdownDisconnect

Next == Program \/ Tick

Spec == Init /\ [][Next]_vars

\* the thread keeps running and the clock keeps advancing
LiveSpec == Spec /\ WF_vars(Program) /\ SF_vars(Tick)

(* ============================== claims ================================= *)
\* a step of the program (not of the clock) that issues library call c
Issues(c) == pc' # pc /\ call' = c

StreamCalls == {"peek", "discard", "uncork"}

SomeBad == ctxState \in BadStates \/ strState \in BadStates

\* C1: once a library error was reported (iterate Err/Quit, sink-list
\* Error, peek Err) the program performs no further mainloop iteration.
C1_ErrorsTerminate == [][libErr => ~Issues("iterate")]_vars

\* C2: when the context or the stream is Failed or Terminated the program
\* is at the check that ends it or has ended, and no step taken in such a
\* state issues peek, discard or uncork.
C2_NoStreamUseAfterFailure ==
  /\ [](SomeBad => pc \in {"ctx_state", "gs_state", "sw_state", "run_corked"}
                             \cup Terminal)
  /\ [][SomeBad => \A c \in StreamCalls : ~Issues(c)]_vars

\* the stream failed in the run loop and the program ended at is_corked
C2_Witness ==
  /\ strReadySeen
  /\ strState = "Failed"
  /\ ctxState = "Ready"
  /\ pc = "panicked"
  /\ call = "is_corked"

\* the catalog names that contain "FiiO"
MatchingNames == { <<"F", "i", "i", "O">>, <<"x", "F", "i", "i", "O", "y">> }

\* C3: the index get_sink returns, and set_monitor_stream receives, is the
\* index of the first sink of the server's list whose name contains "FiiO".
C3_FirstMatchingSink ==
  /\ sink # -1 =>
       \E i \in DOMAIN sinks :
         /\ sinks[i].index = sink
         /\ sinks[i].name \in MatchingNames
         /\ \A j \in 1..(i - 1) : sinks[j].name \notin MatchingNames
  /\ monitor # -1 => monitor = sink

\* two sinks match and the first one was given to set_monitor_stream
C3_Witness ==
  /\ Len(sinks) = 2
  /\ sinks[1].index = 2
  /\ sinks[2].index = 5
  /\ sent = 2
  /\ monitor = 2

\* C4: a step prints a "Received ... bytes of data" line exactly when it
\* peeked Data with at least one non-zero byte.
C4_DataLineIffNonSilent ==
  (out = "Received") <=>
    (peekRes.kind = "Data" /\ \E i \in DOMAIN peekRes.data : peekRes.data[i] # 0)

\* a buffer whose first byte is zero and second is not was printed
C4_Witness == out = "Received" /\ peekRes.data = <<0, 7>>

\* C5: no chunk is printed more than once.
C5_PrintedOnce == ~reprinted

ShutdownPcs == {"shutdown_quit", "shutdown_disconnect", "done"}

\* the run loop ended because an iterate did not return Success
IterateEnded ==
  \/ pc = "exited"
  \/ pc = "panicked" /\ diag = "callback panicked"

\* C6 as stated: with the clock advancing and every iterate returning
\* Success, the run loop reaches "Shutdown.".
C6_RunLoopReachesShutdown ==
  (pc \in RunPcs) ~> (pc = "done" \/ IterateEnded)

\* C6 amended: with the clock advancing, every iterate returning Success and
\* the stream staying Ready, the run loop reaches "Shutdown."; a duration
\* check that sees the duration exceeded goes straight to the shutdown,
\* which peeks nothing and prints no data line.
C6_BoundedRun ==
  /\ (pc \in RunPcs) ~> (pc = "done" \/ IterateEnded \/ strState # "Ready")
  /\ [][(pc = "run_elapsed" /\ elapsed > RunDuration)
          => (pc' = "shutdown_quit" /\ out' = "none" /\ call' = "none")]_vars
  /\ [](pc \in ShutdownPcs => /\ elapsed > RunDuration
                              /\ call \in {"none", "quit", "disconnect"}
                              /\ out \in {"none", "Shutdown."})

\* the program shut down after the clock passed the duration
C6_Witness == pc = "done" /\ elapsed > RunDuration /\ strState = "Ready"

Phase(p) ==
  CASE p \in {"ctx_iterate", "ctx_state"} -> 1
    [] p \in {"new_stream", "gs_start", "gs_iterate", "gs_state", "gs_recv"} -> 2
    [] p \in {"set_monitor", "connect_record"} -> 3
    [] p \in {"sw_iterate", "sw_state"} -> 4
    [] p \in {"run_start"} \cup RunPcs -> 5
    [] p \in ShutdownPcs -> 6
    [] OTHER -> 7

\* C7: the stream is created and the lookup started only after the context
\* was seen Ready, the stream is connected only with a sink index, the
\* stream is used only after it was seen Ready, and the phases are passed
\* in order, one at a time, or left for the end of the process.
C7_PhaseOrder ==
  /\ [](call \in {"Stream::new", "get_sink_info_list"} => ctxReadySeen)
  /\ [](call \in {"set_monitor_stream", "connect_record"} =>
          sink # -1 /\ ctxReadySeen)
  /\ [](call \in {"is_corked", "uncork", "peek", "discard"} =>
          strReadySeen /\ monitor # -1)
  /\ [][\/ Phase(pc') = Phase(pc)
        \/ Phase(pc') = Phase(pc) + 1 /\ pc' \notin {"exited", "panicked"}
        \/ pc' \in {"exited", "panicked"}]_vars

\* a complete run through all phases
C7_Witness ==
  pc = "done" /\ ctxReadySeen /\ strReadySeen /\ monitor # -1

\* C8: the callback sends at most one index.
C8_AtMostOneSend == sent <= 1

\* C9: a peek is issued only when the fragment of the previous peek was
\* discarded, and discard is issued only right after a peek that returned a
\* fragment.
C9_PeekDiscardProtocol ==
  [][/\ Issues("peek") => ~fragment
     /\ Issues("discard") => peekRes.kind \in {"Hole", "Data"}]_vars

NoMatchFinished == listState = "done" /\ sent = 0

\* C10: once the list finished without a match the lookup never iterates
\* again: get_sink returns nothing, the stream is never connected, the
\* program is at the checks that follow the last iterate or has panicked,
\* and try_recv panics with "Empty channel."; a match queued before the list
\* finished is still returned.
C10_LookupEnds ==
  /\ [](NoMatchFinished => /\ sink = -1
                           /\ monitor = -1
                           /\ pc \in {"gs_state", "gs_recv", "panicked"})
  /\ [][(pc = "gs_recv" /\ NoMatchFinished)
          => (pc' = "panicked" /\ diag' = "Empty channel.")]_vars
  /\ [][(pc = "gs_recv" /\ chan # <<>>)
          => (pc' = "set_monitor" /\ sink' = chan[1])]_vars

\* the list ended without a match and try_recv found the sender gone
C10_Witness ==
  /\ pc = "panicked"
  /\ diag = "Empty channel."
  /\ NoMatchFinished
  /\ delivered = Len(sinks)
  /\ Len(sinks) > 0

\* a match was queued, the list finished, and get_sink returned the match
C10_WitnessMatch ==
  /\ pc = "set_monitor"
  /\ listState = "done"
  /\ sink = 5

\* C11: after get_sink has returned no matching item reaches the callback,
\* and the callback's send never panics.
C11_NoSendAfterReturn ==
  /\ [](diag # "callback panicked")
  /\ [][sink # -1 => \A i \in (delivered + 1)..delivered' :
                       sinks[i].name \notin MatchingNames]_vars

IteratePcs == {"ctx_iterate", "gs_iterate", "sw_iterate", "run_iterate"}

\* the polling loop a position belongs to, 0 outside the loops
LoopOf(p) ==
  CASE p \in {"ctx_iterate", "ctx_state"} -> 1
    [] p \in {"gs_iterate", "gs_state", "gs_recv"} -> 2
    [] p \in {"sw_iterate", "sw_state"} -> 3
    [] p \in RunPcs -> 4
    [] OTHER -> 0

\* how far into an iteration of its loop a position is
Pos(p) ==
  CASE p \in IteratePcs -> 0
    [] p \in {"ctx_state", "gs_state", "sw_state", "run_corked"} -> 1
    [] p \in {"gs_recv", "run_uncork"} -> 2
    [] p = "run_elapsed" -> 3
    [] p = "run_peek" -> 4
    [] p = "run_discard" -> 5
    [] OTHER -> 0

LoopCalls == {"context.get_state", "stream.get_state", "try_recv",
              "is_corked", "uncork", "peek", "discard"}

\* C12: every iteration of the four loops starts with mainloop.iterate; the
\* state checks and stream calls are issued later in the iteration, after
\* that iterate returned Success; an iterate that returned Err or Quit is
\* the last call the program makes: it has terminated with a diagnostic and
\* takes no further step.
C12_IterateFirst ==
  /\ [](iterRes \in {"Err", "Quit"} => /\ pc \in {"exited", "panicked"}
                                       /\ call = "iterate"
                                       /\ diag # "none")
  /\ [][iterRes \notin {"Err", "Quit"}]_vars
  /\ [][(LoopOf(pc') # 0 /\ pc' # pc) =>
          IF LoopOf(pc) = LoopOf(pc')
          THEN Pos(pc') > Pos(pc) \/ Pos(pc') = 0
          ELSE Pos(pc') = 0]_vars
  /\ [][Issues("iterate") <=> (pc \in IteratePcs /\ pc' # pc)]_vars
  /\ [][\A c \in LoopCalls :
          Issues(c) => (Pos(pc) > 0 /\ iterRes = "Success")]_vars

\* an iterate of the run loop returned Quit and main returned
C12_Witness ==
  /\ iterRes = "Quit"
  /\ strReadySeen
  /\ pc = "exited"
  /\ diag = "Iterate state was not success, quitting..."

\* C13: "Shutdown.", quit and disconnect happen only after the duration
\* check saw the duration exceeded, and then always, once each and in this
\* order, with nothing after them; a process that returned early or
\* panicked has called neither and has not printed "Shutdown.".
C13_ShutdownOnce ==
  /\ [][(pc' = "shutdown_quit" /\ pc' # pc)
          => (pc = "run_elapsed" /\ elapsed > RunDuration)]_vars
  /\ [][(pc = "run_elapsed" /\ elapsed > RunDuration)
          => pc' = "shutdown_quit"]_vars
  /\ [][(pc' # pc /\ (call' = "quit" \/ out' = "Shutdown."))
          => (pc = "shutdown_quit" /\ call' = "quit" /\ out' = "Shutdown.")]_vars
  /\ [][pc = "shutdown_quit" => pc' = "shutdown_disconnect"]_vars
  /\ [][Issues("disconnect") => (pc = "shutdown_disconnect" /\ call = "quit")]_vars
  /\ [][pc = "shutdown_disconnect" => (pc' = "done" /\ call' = "disconnect")]_vars
  /\ [][pc # "done"]_vars
  /\ [](pc \in {"exited", "panicked"} => /\ call \notin {"quit", "disconnect"}
                                         /\ out # "Shutdown.")
  /\ [](pc = "done" => call = "disconnect" /\ elapsed > RunDuration)

\* main returned after quit and disconnect
C13_Witness ==
  /\ pc = "done"
  /\ call = "disconnect"
  /\ iterRes = "Success"
  /\ elapsed = RunDuration + 1
====
